---------------------------- MODULE Spec2Model ----------------------------
(***************************************************************************)
(* A model of the video processing suite: the dimension planner            *)
(* (VideoProcessor.calculate_new_dimensions), the optimize/convert engine  *)
(* (VideoProcessor.optimize_video, VideoProcessor.convert_format) and the  *)
(* batch driver (VideoCLI.process_from_config).                            *)
(*                                                                         *)
(* Python's Optional values are sequences: <<>> is None, <<v>> is v.       *)
(* A float given as a fraction p/q is the pair <<p, q>> with q > 0.        *)
(***************************************************************************)
EXTENDS Integers, Sequences, FiniteSets, TLC

VARIABLES
    p_pc,       \* planner run: "call" before the call, "done" after it
    p_args,     \* planner run: the arguments of calculate_new_dimensions
    p_result,   \* planner run: the returned (new_width, new_height), <<>> before
    e_pc,           \* engine run: the position inside optimize_video / convert_format
    e_args,         \* engine run: the arguments of the call
    fs,             \* the file system: path -> [size, content]
    video_info,     \* optimize_video: the dict get_video_info returned, <<>> before
    output_path,    \* the local output_path once resolved, <<>> before
    output_format,  \* the local output_format / target_format once resolved
    new_dims,       \* optimize_video: (new_width, new_height), <<>> before
    original_bitrate_bps, \* optimize_video: the bitrate of the second probe, <<>> if none
    encode_spec,    \* what is handed to write_videofile, <<>> before
    encoder_calls,  \* how many times write_videofile was invoked in this call
    encoder_error,  \* the exception write_videofile raised, <<>> if none
    e_error,        \* the exception the call raised, <<>> if none
    e_result,       \* the path the call returned, <<>> if none
    kept_original,  \* optimize_video printed "kept the original file instead"
    b_pc,       \* batch run: the position inside process_from_config
    config,     \* batch run: the loaded configuration
    b_i,        \* batch run: the index of the item the current loop is at
    b_log,      \* batch run: the per-item lines printed so far, with the path printed
    b_error,    \* batch run: the exception process_from_config raised, <<>> if none
    b_exit,     \* batch run: the status VideoCLI.run exits with, <<>> while running
    r_pc,       \* resolver run: "call" before resolve_video_input, "done" after it
    r_args,     \* resolver run: the input string, the folder listing, the existing paths
    r_result,   \* resolver run: the returned path or the exception, <<>> before
    l_pc,        \* legacy run: the position inside process_videos_from_json
    l_videos,    \* legacy run: config['videos']
    l_i,         \* legacy run: the index of the entry the loop is at
    l_downloads, \* legacy run: the files in downloads/
    l_optimized, \* legacy run: the files in optimized/
    l_frames,    \* legacy run: the files in frames/
    l_dist,      \* legacy run: the files in dist/
    l_zip,       \* legacy run: what became of the zip step, "not_run" before it
    l_error      \* legacy run: the exception the outer handler printed, <<>> if none

p_vars == <<p_pc, p_args, p_result>>

b_vars == <<b_pc, config, b_i, b_log, b_error, b_exit>>

e_vars == <<e_pc, e_args, fs, video_info, output_path, output_format, new_dims,
            original_bitrate_bps, encode_spec, encoder_calls, encoder_error,
            e_error, e_result, kept_original>>

r_vars == <<r_pc, r_args, r_result>>

l_vars == <<l_pc, l_videos, l_i, l_downloads, l_optimized, l_frames, l_dist,
            l_zip, l_error>>

vars == <<p_vars, e_vars, b_vars, r_vars, l_vars>>

-----------------------------------------------------------------------------
(* Bounds of the model *)

MaxDim == 11        \* source widths and heights are 1..MaxDim
MaxBound == 30      \* max_width / max_height are -1..MaxBound, or None
MaxScaleNum == 5    \* scale factors are p/q with p in -1..MaxScaleNum
SourceSize == 2     \* engine runs: the size of every source file
MaxEncodedSize == 3 \* engine runs: the encoder writes 1..MaxEncodedSize bytes
SourceWidth == 6    \* engine runs: the width every inspection reports
SourceHeight == 4   \* engine runs: the height every inspection reports
MaxVideos == 1      \* batch runs: at most this many entries under 'videos'
MaxLocalVideos == 3 \* batch runs: at most this many entries under 'local_videos'
MaxLegacyVideos == 2 \* legacy runs: at most this many entries under 'videos'

-----------------------------------------------------------------------------
(* Python values *)

None == <<>>
Some(v) == <<v>>

\* Python truthiness of an Optional[int]: None and 0 are false.
Truthy(o) == o # None /\ o[1] # 0

\* Python truthiness of an Optional[float] given as a fraction.
TruthyFrac(o) == o # None /\ o[1] # 0

Abs(x) == IF x < 0 THEN -x ELSE x

RECURSIVE Pow2(_)
Pow2(k) == IF k <= 0 THEN 1 ELSE 2 * Pow2(k - 1)

\* 2^k mod n, without ever forming 2^k.
RECURSIVE Pow2Mod(_, _)
Pow2Mod(k, n) == IF k = 0 THEN 1 % n ELSE (2 * Pow2Mod(k - 1, n)) % n

-----------------------------------------------------------------------------
(* IEEE-754 binary64 arithmetic, as Python's float does it, for the one    *)
(* expression shape the planner uses: int(x * (m / w)) with positive       *)
(* integers x, m, w.  m / w is rounded to 53 bits (round half to even),    *)
(* the product is rounded again, int() truncates.                          *)

\* floor(log2(m / w)): the e with 2^e <= m/w < 2^(e+1).
RECURSIVE FloorLog2Up(_, _, _)
FloorLog2Up(m, w, e) == IF 2 * Pow2(e) * w <= m THEN FloorLog2Up(m, w, e + 1) ELSE e

RECURSIVE FloorLog2Down(_, _, _)
FloorLog2Down(m, w, a) == IF m * Pow2(a) < w THEN FloorLog2Down(m, w, a + 1) ELSE -a

FloorLog2(m, w) == IF m >= w THEN FloorLog2Up(m, w, 0) ELSE FloorLog2Down(m, w, 0)

\* The g with 2^g < n <= 2^(g+1), for n >= 1: the binade just below n.
RECURSIVE BinadeBelowFrom(_, _)
BinadeBelowFrom(n, g) == IF 2 * Pow2(g) < n THEN BinadeBelowFrom(n, g + 1) ELSE g

BinadeBelow(n) == IF n = 1 THEN -1 ELSE BinadeBelowFrom(n, 0)

\* The signed rounding error of float(m / w), in units of 1/(w * 2^k) with
\* k = 52 - floor(log2(m/w)): mantissa * w - m * 2^k.
DivError(m, w) ==
    LET k == 52 - FloorLog2(m, w)
        u == (m * Pow2Mod(k, 2 * w)) % (2 * w)
        t == u % w
        odd == u \div w
    IN  IF 2 * t < w THEN -t
        ELSE IF 2 * t > w THEN w - t
        ELSE IF odd = 0 THEN -t ELSE w - t

\* x * float(m / w) is an exact integer n in the reals, and the float product
\* rounds to the double just below n.
FloatShort(x, m, w) ==
    /\ (x * m) % w = 0
    /\ LET d == DivError(m, w)
           e == FloorLog2(m, w)
           g == BinadeBelow((x * m) \div w)
       IN  d < 0 /\ 4 * x * (-d) > w * Pow2(g - e + 1)

\* int(x * (m / w)) for x > 0, w > 0 and any integer m; int() truncates
\* toward zero.
PyMulDivInt(x, m, w) ==
    IF m = 0 THEN 0
    ELSE LET a == Abs(m)
             n == (x * a) \div w
             v == IF FloatShort(x, a, w) THEN n - 1 ELSE n
         IN  IF m < 0 THEN -v ELSE v

-----------------------------------------------------------------------------
(* VideoProcessor.calculate_new_dimensions *)

\* A planner that rounds an odd dimension up instead of down.
MakeEvenUp(n) == IF n % 2 = 0 THEN n ELSE n + 1

\* new_width if new_width % 2 == 0 else new_width - 1
MakeEven(n) == IF n % 2 = 0 THEN n ELSE n - 1

\* A ratio that takes the larger of the two quotients.
BoundsRatioLargest(ow, oh, max_width, max_height) ==
    IF Truthy(max_width) /\ Truthy(max_height)
    THEN IF max_height[1] * ow < max_width[1] * oh
         THEN <<max_width[1], ow>>
         ELSE <<max_height[1], oh>>
    ELSE IF Truthy(max_width) THEN <<max_width[1], ow>>
    ELSE <<max_height[1], oh>>

\* The ratio of the max-bounds branch, as the fraction <<num, den>> whose
\* float the code multiplies with.  min() returns its first argument unless
\* the second is strictly smaller.
BoundsRatio(ow, oh, max_width, max_height) ==
    IF Truthy(max_width) /\ Truthy(max_height)
    THEN IF max_height[1] * ow < max_width[1] * oh
         THEN <<max_height[1], oh>>
         ELSE <<max_width[1], ow>>
    ELSE IF Truthy(max_width) THEN <<max_width[1], ow>>
    ELSE <<max_height[1], oh>>

\* int(original * scale_factor): the float scale_factor is float(p / q).
ScaleDim(o, scale_factor) == PyMulDivInt(o * 1, scale_factor[1], scale_factor[2])

calculate_new_dimensions(ow, oh, max_width, max_height, scale_factor) ==
    LET raw ==
            IF TruthyFrac(scale_factor)
            THEN <<ScaleDim(ow, scale_factor), ScaleDim(oh, scale_factor)>>
            ELSE IF Truthy(max_width) \/ Truthy(max_height)
            THEN LET r == BoundsRatio(ow, oh, max_width, max_height)
                 IN  <<PyMulDivInt(ow, r[1], r[2]), PyMulDivInt(oh, r[1], r[2])>>
            ELSE <<ow, oh>>
    IN  <<MakeEven(raw[1]), MakeEven(raw[2])>>

-----------------------------------------------------------------------------
(* The arguments of calculate_new_dimensions, from the bounded sets *)

Dims == 1..MaxDim
BoundValues == {None} \cup {Some(b) : b \in -1..MaxBound}
ScaleDens == {2, 10}
ScaleValues == {<<p, q>> : p \in -1..MaxScaleNum, q \in ScaleDens}

PlannerArgs ==
    [w : Dims, h : Dims, max_width : BoundValues, max_height : BoundValues,
     scale_factor : {None}]
    \cup
    [w : Dims, h : Dims, max_width : {None, Some(MaxBound)},
     max_height : {None, Some(MaxBound)}, scale_factor : ScaleValues]

\* A 1280x720 source planned with max_width 721 and max_height 481.
PlannerExamples ==
    {[w |-> 1280, h |-> 720, max_width |-> Some(721), max_height |-> Some(481),
      scale_factor |-> None]}

-----------------------------------------------------------------------------
(* Strings and paths *)

\* str.lower() on the format strings of the model.
Lower(s) == CASE s = "MP4" -> "mp4"
              [] s = ".MP4" -> ".mp4"
              [] s = "CLIP" -> "clip"
              [] s = "Intro" -> "intro"
              [] OTHER -> s

\* str.lstrip('.') on the format strings of the model.
LStripDot(s) == CASE s = ".mp4" -> "mp4"
                  [] s = ".MP4" -> "MP4"
                  [] OTHER -> s

\* A path is [dir, stem, ext]: pathlib's parent, stem (a tuple of string
\* pieces, so that f"{stem}_optimized" is Append(stem, "_optimized")) and the
\* suffix without its dot.
MkPath(dir, stem, ext) == [dir |-> dir, stem |-> stem, ext |-> ext]

\* Path(p).suffix.lower().lstrip('.')
SuffixFormat(path) == LStripDot(Lower(path.ext))

\* A file is its size in bytes and whose bytes they are.
MkFile(size, content) == [size |-> size, content |-> content]

Exists(files, path) == path \in DOMAIN files

\* Writing a file creates or replaces the entry of its path.
WriteFile(files, path, file) ==
    [q \in DOMAIN files \cup {path} |-> IF q = path THEN file ELSE files[q]]

-----------------------------------------------------------------------------
(* VideoProcessor: the class tables *)

SUPPORTED_FORMATS ==
    [mp4  |-> [video_codec |-> "libx264",    audio_codec |-> "aac"],
     webm |-> [video_codec |-> "libvpx-vp9", audio_codec |-> "libvorbis"],
     avi  |-> [video_codec |-> "libx264",    audio_codec |-> "mp3"],
     mov  |-> [video_codec |-> "libx264",    audio_codec |-> "aac"],
     mkv  |-> [video_codec |-> "libx264",    audio_codec |-> "aac"],
     wmv  |-> [video_codec |-> "wmv2",       audio_codec |-> "wmav2"],
     flv  |-> [video_codec |-> "libx264",    audio_codec |-> "aac"],
     m4v  |-> [video_codec |-> "libx264",    audio_codec |-> "aac"]]

COMPRESSION_PRESETS ==
    [lossless |-> [crf |-> 0,  preset |-> "veryslow"],
     high     |-> [crf |-> 18, preset |-> "slow"],
     medium   |-> [crf |-> 23, preset |-> "medium"],
     low      |-> [crf |-> 28, preset |-> "fast"],
     very_low |-> [crf |-> 35, preset |-> "veryfast"]]

\* A format check that lets every format through.
IsSupportedAlways(fmt) == TRUE

\* output_format not in self.SUPPORTED_FORMATS, negated
IsSupported(fmt) == fmt \in DOMAIN SUPPORTED_FORMATS

\* A lookup whose fallback for an unlisted tag is the low tier.
PresetOrLow(level) ==
    IF level \in DOMAIN COMPRESSION_PRESETS
    THEN COMPRESSION_PRESETS[level]
    ELSE COMPRESSION_PRESETS["low"]

\* self.COMPRESSION_PRESETS.get(level, self.COMPRESSION_PRESETS['medium'])
PresetOrMedium(level) ==
    IF level \in DOMAIN COMPRESSION_PRESETS
    THEN COMPRESSION_PRESETS[level]
    ELSE COMPRESSION_PRESETS["medium"]

\* A preset choice that forgets the lossless flag.
CompressionSettingsByLevel(lossless, compression_level) == PresetOrMedium(compression_level)

\* optimize_video: compression_settings
CompressionSettings(lossless, compression_level) ==
    IF lossless THEN COMPRESSION_PRESETS["lossless"]
    ELSE PresetOrMedium(compression_level)

\* A ratio table whose fallback for an unlisted tag is the full source bitrate.
LevelToRatioFullFallback(compression_level) ==
    CASE compression_level = "high"     -> <<7, 10>>
      [] compression_level = "medium"   -> <<11, 20>>
      [] compression_level = "low"      -> <<2, 5>>
      [] compression_level = "very_low" -> <<1, 4>>
      [] OTHER                          -> <<1, 1>>

\* level_to_ratio.get(compression_level, 0.55), as a fraction
LevelToRatio(compression_level) ==
    CASE compression_level = "high"     -> <<7, 10>>
      [] compression_level = "medium"   -> <<11, 20>>
      [] compression_level = "low"      -> <<2, 5>>
      [] compression_level = "very_low" -> <<1, 4>>
      [] OTHER                          -> <<11, 20>>

\* int((original_bitrate_bps * ratio) / 1000) in binary64: the exact quotient,
\* except that a product one ulp short of a multiple of 1000 truncates to
\* the integer below.
MaxrateKbps(bps, ratio) ==
    LET n == (bps * ratio[1]) \div (ratio[2] * 1000)
    IN  IF (bps * ratio[1]) % (ratio[2] * 1000) = 0 /\ FloatShort(bps, ratio[1], ratio[2])
        THEN n - 1
        ELSE n

MinBufsizeKbps == 1000

\* A buffer size without the floor.
BufsizeKbpsNoFloor(maxrate_kbps) == maxrate_kbps * 2

\* max(maxrate_kbps * 2, 1000)
BufsizeKbps(maxrate_kbps) ==
    IF maxrate_kbps * 2 >= MinBufsizeKbps THEN maxrate_kbps * 2 ELSE MinBufsizeKbps

\* A cap that does not look at the codec.
RateCapAppliesAnyCodec(lossless, video_codec, bitrate_bps) ==
    ~lossless /\ Truthy(bitrate_bps)

\* The H.264 cap is applied: not lossless and codec == 'libx264' and
\* original_bitrate_bps (None and 0 are false).
RateCapApplies(lossless, video_codec, bitrate_bps) ==
    ~lossless /\ video_codec = "libx264" /\ Truthy(bitrate_bps)

\* Container flags appended to ffmpeg_params.
FormatFlags(fmt) ==
    CASE fmt = "mp4"  -> <<"-movflags", "+faststart">>
      [] fmt = "webm" -> <<"-b:v", "0">>
      [] OTHER        -> <<>>

\* What optimize_video hands to write_videofile.
OptimizeEncodeSpec(a, fmt, dims, bitrate_bps, has_audio) ==
    LET cs == CompressionSettings(a.lossless, a.compression_level)
        fmts == SUPPORTED_FORMATS[fmt]
        capped == RateCapApplies(a.lossless, fmts.video_codec, bitrate_bps)
        maxrate == MaxrateKbps(bitrate_bps[1], LevelToRatio(a.compression_level))
    IN  [codec |-> fmts.video_codec,
         audio_codec |-> fmts.audio_codec,
         size |-> dims,
         crf |-> cs.crf,
         preset |-> cs.preset,
         maxrate_kbps |-> IF capped THEN Some(maxrate) ELSE None,
         bufsize_kbps |-> IF capped THEN Some(BufsizeKbps(maxrate)) ELSE None,
         flags |-> FormatFlags(fmt),
         audio |-> has_audio,
         audio_bitrate_kbps |-> IF has_audio /\ ~a.lossless
                                THEN Some(a.audio_bitrate_kbps) ELSE None]

\* What convert_format hands to write_videofile.
ConvertEncodeSpec(a, fmt, has_audio) ==
    LET qs == PresetOrMedium(a.quality)
        fmts == SUPPORTED_FORMATS[fmt]
    IN  [codec |-> fmts.video_codec,
         audio_codec |-> fmts.audio_codec,
         size |-> None,
         crf |-> qs.crf,
         preset |-> qs.preset,
         maxrate_kbps |-> None,
         bufsize_kbps |-> None,
         flags |-> FormatFlags(fmt),
         audio |-> has_audio,
         audio_bitrate_kbps |-> IF has_audio THEN Some(a.audio_bitrate_kbps) ELSE None]

\* A resolution that ignores the suffix of an explicit output path.
ResolvedFormatSourceDefault(a, info_format) ==
    IF a.output_format # None THEN a.output_format[1] ELSE info_format

\* optimize_video: "Determine output path and format".
ResolvedFormat(a, info_format) ==
    IF a.output_path = None
    THEN IF a.output_format # None THEN a.output_format[1] ELSE info_format
    ELSE IF a.output_format # None THEN a.output_format[1]
         ELSE SuffixFormat(a.output_path[1])

ResolvedPath(a, fmt) ==
    IF a.output_path = None
    THEN MkPath("output/optimized", Append(a.input_path.stem, "_optimized"), fmt)
    ELSE a.output_path[1]

\* convert_format: "Determine output path".
ConvertedPath(a, fmt) ==
    IF a.output_path = None
    THEN MkPath("output/converted", Append(a.input_path.stem, "_converted"), fmt)
    ELSE a.output_path[1]

\* A guard that lets an encode of exactly the source's size through.
GuardFiresStrict(ensure_smaller, fmt, info_format, new_size, original_size, lossless) ==
    ensure_smaller /\ fmt = info_format /\ new_size > original_size /\ ~lossless

\* A guard that does not look at the containers.
GuardFiresAnyFormat(ensure_smaller, fmt, info_format, new_size, original_size, lossless) ==
    ensure_smaller /\ new_size >= original_size /\ ~lossless

\* A guard that also replaces the output of a lossless request.
GuardFiresAlsoLossless(ensure_smaller, fmt, info_format, new_size, original_size, lossless) ==
    ensure_smaller /\ fmt = info_format /\ new_size >= original_size

\* The size guard: sizes are compared as bytes / 2^20, an exact division in
\* binary64, so the comparison is that of the byte counts.
GuardFires(ensure_smaller, fmt, info_format, new_size, original_size, lossless) ==
    ensure_smaller /\ fmt = info_format /\ new_size >= original_size /\ ~lossless

-----------------------------------------------------------------------------
(* The engine: one call of optimize_video or convert_format, step by step *)

SourceExts == {"mp4", "MP4", "xyz"}
SourcePath(ext) == MkPath("local_videos", <<"in">>, ext)
MissingPath == MkPath("local_videos", <<"gone">>, "mp4")

\* The file system before the call: one source file per extension.
InitialFiles == [q \in {SourcePath(x) : x \in SourceExts} |-> MkFile(SourceSize, "source")]

InputPaths == {SourcePath(x) : x \in SourceExts} \cup {MissingPath}
ExplicitOutputs == {MkPath("out", <<"out">>, "webm"), MkPath("out", <<"out">>, "MP4")}
OutputFormats == {None, Some("mp4"), Some("webm"), Some("wmv"), Some("xyz")}
PresetTags == {"lossless", "high", "medium", "low", "very_low", "ultra"}
BitrateValues == {1429, 90000, 2000000}
AudioBitrateDefault == 128

\* The resize arguments of an engine call: none, a scale factor (0.5, -0.5),
\* a max_width (0, -1).  The output path of a call is None, one of
\* ExplicitOutputs or the input path itself.
ResizeChoices ==
    {[max_width |-> None, max_height |-> None, scale_factor |-> None],
     [max_width |-> None, max_height |-> None, scale_factor |-> <<1, 2>>],
     [max_width |-> None, max_height |-> None, scale_factor |-> <<-1, 2>>],
     [max_width |-> Some(0), max_height |-> None, scale_factor |-> None],
     [max_width |-> Some(-1), max_height |-> None, scale_factor |-> None]}

OutputChoices(ip) == {None} \cup {Some(q) : q \in ExplicitOutputs \cup {ip}}

OptimizeArgsFor(ip) ==
    {[op |-> "optimize", input_path |-> ip, output_path |-> op,
      compression_level |-> cl, max_width |-> rz.max_width,
      max_height |-> rz.max_height, scale_factor |-> rz.scale_factor,
      output_format |-> of, lossless |-> ll,
      audio_bitrate_kbps |-> AudioBitrateDefault, ensure_smaller |-> es] :
        op \in OutputChoices(ip),
        cl \in PresetTags, rz \in ResizeChoices, of \in OutputFormats,
        ll \in BOOLEAN, es \in BOOLEAN}

OptimizeArgs == UNION {OptimizeArgsFor(ip) : ip \in InputPaths}

TargetFormats == {"mp4", ".MP4", "webm", "xyz"}

ConvertArgsFor(ip) ==
    {[op |-> "convert", input_path |-> ip, target_format |-> tf,
      output_path |-> op, quality |-> q,
      audio_bitrate_kbps |-> AudioBitrateDefault] :
        tf \in TargetFormats, op \in OutputChoices(ip), q \in PresetTags}

ConvertArgs == UNION {ConvertArgsFor(ip) : ip \in InputPaths}

EngineIdle ==
    /\ e_pc = "idle"
    /\ e_args = None
    /\ fs = InitialFiles
    /\ video_info = None
    /\ output_path = None
    /\ output_format = None
    /\ new_dims = None
    /\ original_bitrate_bps = None
    /\ encode_spec = None
    /\ encoder_calls = 0
    /\ encoder_error = None
    /\ e_error = None
    /\ e_result = None
    /\ kept_original = FALSE

\* raise <type>(<message>): the call ends.
Raise(type, msg) ==
    /\ e_pc' = "raised"
    /\ e_error' = Some([type |-> type, msg |-> msg, detail |-> None])

\* An except clause that drops the text of the exception it caught.
RaiseWithoutCause(msg, e) ==
    /\ e_pc' = "raised"
    /\ e_error' = Some([type |-> "RuntimeError", msg |-> msg, detail |-> None])

\* except Exception as e: raise RuntimeError(f"<message>: {str(e)}")
RaiseFrom(msg, e) ==
    /\ e_pc' = "raised"
    /\ e_error' = Some([type |-> "RuntimeError", msg |-> msg, detail |-> Some(e)])

\* What the encoder says when it fails.
EncoderDiagnostics == {"ffmpeg: conversion failed", "ffmpeg: broken pipe"}

\* optimize_video(...) is called.
OptimizeCall ==
    /\ e_pc = "idle"
    /\ \E a \in OptimizeArgs : e_args' = Some(a)
    /\ e_pc' = "opt_exists"
    /\ UNCHANGED <<fs, video_info, output_path, output_format, new_dims,
                   encode_spec, original_bitrate_bps, encoder_calls, encoder_error, e_error, e_result, kept_original,
                   p_vars, r_vars, l_vars, b_vars>>

\* if not input_path.exists(): raise FileNotFoundError
OptCheckInput ==
    /\ e_pc = "opt_exists"
    /\ IF Exists(fs, e_args[1].input_path)
       THEN e_pc' = "opt_inspect" /\ UNCHANGED e_error
       ELSE Raise("FileNotFoundError", "Input video not found")
    /\ UNCHANGED <<e_args, fs, video_info, output_path, output_format, new_dims,
                   encode_spec, original_bitrate_bps, encoder_calls, encoder_error, e_result, kept_original, p_vars, r_vars, l_vars, b_vars>>

\* video_info = self.get_video_info(str(input_path)): the file is read or
\* ValueError is raised.  Only width, height and format are read later.
OptInspect ==
    /\ e_pc = "opt_inspect"
    /\ \E readable \in BOOLEAN :
         IF readable
         THEN /\ video_info' = Some([width |-> SourceWidth, height |-> SourceHeight,
                                     format |-> SuffixFormat(e_args[1].input_path)])
              /\ e_pc' = "opt_resolve"
              /\ UNCHANGED e_error
         ELSE /\ Raise("ValueError", "Could not read video file")
              /\ UNCHANGED video_info
    /\ UNCHANGED <<e_args, fs, output_path, output_format, new_dims,
                   encode_spec, original_bitrate_bps, encoder_calls, encoder_error, e_result, kept_original, p_vars, r_vars, l_vars, b_vars>>

\* "Determine output path and format", then the SUPPORTED_FORMATS check.
OptResolve ==
    /\ e_pc = "opt_resolve"
    /\ LET fmt == ResolvedFormat(e_args[1], video_info[1].format)
       IN  /\ output_format' = Some(fmt)
           /\ output_path' = Some(ResolvedPath(e_args[1], fmt))
           /\ IF IsSupported(fmt)
              THEN e_pc' = "opt_plan" /\ UNCHANGED e_error
              ELSE Raise("ValueError", "Unsupported output format")
    /\ UNCHANGED <<e_args, fs, video_info, new_dims, encode_spec, original_bitrate_bps, encoder_calls, encoder_error,
                   e_result, kept_original, p_vars, r_vars, l_vars, b_vars>>

\* new_width, new_height = self.calculate_new_dimensions(...)
OptPlan ==
    /\ e_pc = "opt_plan"
    /\ new_dims' = Some(calculate_new_dimensions(video_info[1].width, video_info[1].height,
                                                 e_args[1].max_width, e_args[1].max_height,
                                                 e_args[1].scale_factor))
    /\ e_pc' = "opt_prepare"
    /\ UNCHANGED <<e_args, fs, video_info, output_path, output_format, encode_spec, original_bitrate_bps,
                   encoder_calls, encoder_error, e_error, e_result, kept_original, p_vars, r_vars, l_vars, b_vars>>

\* Inside the try: the clip is opened and resized, the source is probed again
\* for its bitrate (an exception there gives None) and the parameters are
\* assembled.  Opening or resizing may raise; an output format missing from
\* SUPPORTED_FORMATS is a KeyError.  Each becomes RuntimeError.
OptPrepare ==
    /\ e_pc = "opt_prepare"
    /\ \E opened \in BOOLEAN, has_audio \in BOOLEAN,
          probed \in {None} \cup {Some(b) : b \in BitrateValues} :
         IF opened /\ output_format[1] \in DOMAIN SUPPORTED_FORMATS
         THEN /\ original_bitrate_bps' = probed
              /\ encode_spec' = Some(OptimizeEncodeSpec(e_args[1], output_format[1],
                                         new_dims[1], probed, has_audio))
              /\ e_pc' = "opt_write"
              /\ UNCHANGED e_error
         ELSE /\ RaiseFrom("Error optimizing video",
                           IF opened THEN "KeyError" ELSE "the clip could not be opened")
              /\ UNCHANGED <<encode_spec, original_bitrate_bps>>
    /\ UNCHANGED <<e_args, fs, video_info, output_path, output_format, new_dims,
                   encoder_calls, encoder_error, e_result, kept_original, p_vars, r_vars, l_vars, b_vars>>

\* An encode step that goes on to the guard when the encoder failed.
OptWriteThenGuard ==
    /\ e_pc = "opt_write"
    /\ encoder_calls' = encoder_calls + 1
    /\ \/ \E size \in 1..MaxEncodedSize :
            /\ fs' = WriteFile(fs, output_path[1], MkFile(size, "encoded"))
            /\ UNCHANGED encoder_error
       \/ \E diagnostic \in EncoderDiagnostics :
            /\ fs' = WriteFile(fs, output_path[1], MkFile(1, "partial"))
            /\ encoder_error' = Some(diagnostic)
    /\ e_pc' = "opt_guard"
    /\ UNCHANGED <<e_args, video_info, output_path, output_format, new_dims,
                   encode_spec, original_bitrate_bps, e_error, e_result, kept_original,
                   p_vars, r_vars, l_vars, b_vars>>

\* video.write_videofile(str(output_path), ...): the encoder writes the output
\* file, or fails (leaving nothing or a partial file) and RuntimeError is raised.
OptWrite ==
    /\ e_pc = "opt_write"
    /\ encoder_calls' = encoder_calls + 1
    /\ \/ \E size \in 1..MaxEncodedSize :
            /\ fs' = WriteFile(fs, output_path[1], MkFile(size, "encoded"))
            /\ e_pc' = "opt_guard"
            /\ UNCHANGED <<e_error, encoder_error>>
       \/ \E partial \in BOOLEAN, diagnostic \in EncoderDiagnostics :
            /\ fs' = IF partial THEN WriteFile(fs, output_path[1], MkFile(1, "partial"))
                     ELSE fs
            /\ encoder_error' = Some(diagnostic)
            /\ RaiseFrom("Error optimizing video", diagnostic)
    /\ UNCHANGED <<e_args, video_info, output_path, output_format, new_dims,
                   encode_spec, original_bitrate_bps, e_result, kept_original, p_vars, r_vars, l_vars, b_vars>>

\* The sizes are read after the encode; when the guard fires the original is
\* copied over the output (shutil.copy2 raises SameFileError when both are
\* one file and OSError when the copy fails, which becomes RuntimeError);
\* then the output path is returned.
OptGuard ==
    /\ e_pc = "opt_guard"
    /\ LET a == e_args[1]
           original_size == fs[a.input_path].size
           new_size == fs[output_path[1]].size
       IN  IF GuardFires(a.ensure_smaller, output_format[1], video_info[1].format,
                         new_size, original_size, a.lossless)
           THEN IF output_path[1] = a.input_path
                THEN /\ RaiseFrom("Error optimizing video", "SameFileError")
                     /\ UNCHANGED <<fs, kept_original, e_result>>
                ELSE \/ /\ fs' = WriteFile(fs, output_path[1], fs[a.input_path])
                        /\ kept_original' = TRUE
                        /\ e_result' = output_path
                        /\ e_pc' = "returned"
                        /\ UNCHANGED e_error
                     \/ /\ RaiseFrom("Error optimizing video", "OSError")
                        /\ UNCHANGED <<fs, kept_original, e_result>>
           ELSE /\ e_result' = output_path
                /\ e_pc' = "returned"
                /\ UNCHANGED <<fs, kept_original, e_error>>
    /\ UNCHANGED <<e_args, video_info, output_path, output_format, new_dims,
                   encode_spec, original_bitrate_bps, encoder_calls, encoder_error, p_vars, r_vars, l_vars, b_vars>>

\* convert_format(...) is called.
ConvertCall ==
    /\ e_pc = "idle"
    /\ \E a \in ConvertArgs : e_args' = Some(a)
    /\ e_pc' = "conv_exists"
    /\ UNCHANGED <<fs, video_info, output_path, output_format, new_dims,
                   encode_spec, original_bitrate_bps, encoder_calls, encoder_error, e_error, e_result, kept_original,
                   p_vars, r_vars, l_vars, b_vars>>

\* if not input_path.exists(): raise FileNotFoundError
ConvCheckInput ==
    /\ e_pc = "conv_exists"
    /\ IF Exists(fs, e_args[1].input_path)
       THEN e_pc' = "conv_resolve" /\ UNCHANGED e_error
       ELSE Raise("FileNotFoundError", "Input video not found")
    /\ UNCHANGED <<e_args, fs, video_info, output_path, output_format, new_dims,
                   encode_spec, original_bitrate_bps, encoder_calls, encoder_error, e_result, kept_original, p_vars, r_vars, l_vars, b_vars>>

\* target_format = target_format.lower().lstrip('.'), the SUPPORTED_FORMATS
\* check, "Determine output path".
ConvResolve ==
    /\ e_pc = "conv_resolve"
    /\ LET fmt == LStripDot(Lower(e_args[1].target_format))
       IN  /\ output_format' = Some(fmt)
           /\ IF IsSupported(fmt)
              THEN /\ output_path' = Some(ConvertedPath(e_args[1], fmt))
                   /\ e_pc' = "conv_prepare"
                   /\ UNCHANGED e_error
              ELSE /\ Raise("ValueError", "Unsupported target format")
                   /\ UNCHANGED output_path
    /\ UNCHANGED <<e_args, fs, video_info, new_dims, encode_spec, original_bitrate_bps, encoder_calls, encoder_error,
                   e_result, kept_original, p_vars, r_vars, l_vars, b_vars>>

\* Inside the try: the clip is opened and the parameters are assembled.
ConvPrepare ==
    /\ e_pc = "conv_prepare"
    /\ \E opened \in BOOLEAN, has_audio \in BOOLEAN :
         IF opened /\ output_format[1] \in DOMAIN SUPPORTED_FORMATS
         THEN /\ encode_spec' = Some(ConvertEncodeSpec(e_args[1], output_format[1], has_audio))
              /\ e_pc' = "conv_write"
              /\ UNCHANGED e_error
         ELSE /\ RaiseFrom("Error converting video",
                           IF opened THEN "KeyError" ELSE "the clip could not be opened")
              /\ UNCHANGED encode_spec
    /\ UNCHANGED <<original_bitrate_bps, e_args, fs, video_info, output_path, output_format, new_dims,
                   encoder_calls, encoder_error, e_result, kept_original, p_vars, r_vars, l_vars, b_vars>>

\* A conversion that keeps the original when the encode is not smaller.
ConvWriteGuarded ==
    /\ e_pc = "conv_write"
    /\ encoder_calls' = encoder_calls + 1
    /\ \/ \E size \in 1..MaxEncodedSize :
            /\ IF size >= fs[e_args[1].input_path].size
               THEN /\ fs' = WriteFile(fs, output_path[1], fs[e_args[1].input_path])
                    /\ kept_original' = TRUE
               ELSE /\ fs' = WriteFile(fs, output_path[1], MkFile(size, "encoded"))
                    /\ UNCHANGED kept_original
            /\ e_result' = output_path
            /\ e_pc' = "returned"
            /\ UNCHANGED <<e_error, encoder_error>>
       \/ \E partial \in BOOLEAN, diagnostic \in EncoderDiagnostics :
            /\ fs' = IF partial THEN WriteFile(fs, output_path[1], MkFile(1, "partial"))
                     ELSE fs
            /\ encoder_error' = Some(diagnostic)
            /\ RaiseFrom("Error converting video", diagnostic)
            /\ UNCHANGED <<e_result, kept_original>>
    /\ UNCHANGED <<e_args, video_info, output_path, output_format, new_dims,
                   encode_spec, original_bitrate_bps, p_vars, r_vars, l_vars, b_vars>>

\* video.write_videofile(...), then return str(output_path).
ConvWrite ==
    /\ e_pc = "conv_write"
    /\ encoder_calls' = encoder_calls + 1
    /\ \/ \E size \in 1..MaxEncodedSize :
            /\ fs' = WriteFile(fs, output_path[1], MkFile(size, "encoded"))
            /\ e_result' = output_path
            /\ e_pc' = "returned"
            /\ UNCHANGED <<e_error, encoder_error>>
       \/ \E partial \in BOOLEAN, diagnostic \in EncoderDiagnostics :
            /\ fs' = IF partial THEN WriteFile(fs, output_path[1], MkFile(1, "partial"))
                     ELSE fs
            /\ encoder_error' = Some(diagnostic)
            /\ RaiseFrom("Error converting video", diagnostic)
            /\ UNCHANGED e_result
    /\ UNCHANGED <<e_args, video_info, output_path, output_format, new_dims,
                   encode_spec, original_bitrate_bps, kept_original, p_vars, r_vars, l_vars, b_vars>>

PlannerIdle ==
    /\ p_pc = "idle"
    /\ p_args = None
    /\ p_result = None

BatchIdle ==
    /\ b_pc = "idle"
    /\ config = None
    /\ b_i = 0
    /\ b_log = <<>>
    /\ b_error = None
    /\ b_exit = None

ResolverIdle ==
    /\ r_pc = "idle"
    /\ r_args = None
    /\ r_result = None

LegacyIdle ==
    /\ l_pc = "idle"
    /\ l_videos = <<>>
    /\ l_i = 1
    /\ l_downloads = {}
    /\ l_optimized = {}
    /\ l_frames = {}
    /\ l_dist = {}
    /\ l_zip = "not_run"
    /\ l_error = None

Init == PlannerIdle /\ EngineIdle /\ BatchIdle /\ ResolverIdle /\ LegacyIdle

Next ==
    \/ OptimizeCall
    \/ OptCheckInput
    \/ OptInspect
    \/ OptResolve
    \/ OptPlan
    \/ OptPrepare
    \/ OptWrite
    \/ OptGuard
    \/ ConvertCall
    \/ ConvCheckInput
    \/ ConvResolve
    \/ ConvPrepare
    \/ ConvWrite

Spec == Init /\ [][Next]_vars

-----------------------------------------------------------------------------
(* The batch driver: VideoCLI.process_from_config, as VideoCLI.run calls it *)

\* A processing record, of the configuration or of one item: a key that is
\* absent is None.
Processing(cl, mw, mh, of, ll) ==
    [compression_level |-> cl, max_width |-> mw, max_height |-> mh,
     output_format |-> of, lossless |-> ll]

NoProcessing == Processing(None, None, None, None, None)

\* processing_config = config['processing'].copy(); processing_config.update(...)
MergeProcessing(base, over) ==
    [k \in DOMAIN base |-> IF over[k] # None THEN over[k] ELSE base[k]]

\* dict.get(key, default)
GetOr(o, default) == IF o = None THEN default ELSE o[1]

\* a or b, on Optional strings
OrElse(a, b) == IF a # None /\ a[1] # "" THEN a ELSE b

VALID_COMPRESSION_LEVELS == {"lossless", "high", "medium", "low", "very_low"}

\* ConfigManager.validate_config: TRUE when it returns, FALSE when it raises
\* ValueError.
validate_config(cfg) ==
    /\ cfg.processing # None
    /\ LET processing == cfg.processing[1]
       IN  processing.compression_level # None
               => processing.compression_level[1] \in VALID_COMPRESSION_LEVELS

\* VideoDownloader.download_video without output_path: where the file goes.
\* A URL is the file name its path ends with, [stem, ext]; ext is "" when the
\* name has no dot.
DownloadTarget(url, filename) ==
    IF filename # None THEN MkPath("output/downloads", filename[1].stem, filename[1].ext)
    ELSE IF url.ext = "" THEN MkPath("output/downloads", <<"downloaded_video">>, "mp4")
    ELSE MkPath("output/downloads", url.stem, url.ext)

\* VideoDownloader.download_from_config: filename = f"{name}.{format_ext}"
ConfigFilename(video_config) ==
    IF video_config.name # None /\ video_config.name[1] # <<>>
    THEN Some([stem |-> video_config.name[1], ext |-> GetOr(video_config.format, "mp4")])
    ELSE None

\* The optimize_video call of the 'videos' loop.
VideoCallArgs(cfg, video_config, downloaded_path) ==
    LET processing_config == cfg.processing[1]
    IN  [op |-> "optimize", input_path |-> downloaded_path, output_path |-> None,
         compression_level |-> GetOr(processing_config.compression_level, "medium"),
         max_width |-> processing_config.max_width,
         max_height |-> processing_config.max_height,
         scale_factor |-> None,
         output_format |-> OrElse(video_config.output_format, processing_config.output_format),
         lossless |-> GetOr(processing_config.lossless, FALSE),
         audio_bitrate_kbps |-> AudioBitrateDefault, ensure_smaller |-> TRUE]

\* The optimize_video call of the 'local_videos' loop.
LocalCallArgs(cfg, video_config) ==
    LET processing_config == MergeProcessing(cfg.processing[1], video_config.processing)
    IN  [op |-> "optimize", input_path |-> video_config.local_path[1], output_path |-> None,
         compression_level |-> GetOr(processing_config.compression_level, "medium"),
         max_width |-> processing_config.max_width,
         max_height |-> processing_config.max_height,
         scale_factor |-> None,
         output_format |-> OrElse(video_config.output_format, processing_config.output_format),
         lossless |-> GetOr(processing_config.lossless, FALSE),
         audio_bitrate_kbps |-> AudioBitrateDefault, ensure_smaller |-> TRUE]

VideoItem(name, url, over) ==
    [name |-> name, url |-> url, format |-> None, output_format |-> None,
     processing |-> over]

LocalItem(name, local_path, over) ==
    [name |-> name, local_path |-> local_path, output_format |-> None, processing |-> over]

VideoItems ==
    {VideoItem(Some(<<"clip">>), Some([stem |-> <<"movie">>, ext |-> "mp4"]), NoProcessing),
     VideoItem(Some(<<"clip">>), Some([stem |-> <<"movie">>, ext |-> "mp4"]),
               Processing(Some("high"), None, None, None, None)),
     VideoItem(Some(<<"clip">>), None, NoProcessing)}

LocalItems ==
    {LocalItem(Some("a"), Some(SourcePath("mp4")), NoProcessing),
     LocalItem(Some("b"), Some(SourcePath("MP4")),
               Processing(Some("high"), None, None, None, None)),
     LocalItem(Some("c"), Some(SourcePath("xyz")), NoProcessing),
     LocalItem(Some("d"), Some(MissingPath), NoProcessing),
     LocalItem(Some("e"), Some(SourcePath("mp4")),
               Processing(Some("ultra"), None, None, None, None))}

SeqsUpTo(S, n) == UNION {[1..k -> S] : k \in 0..n}

BatchConfigs ==
    [processing : {None, Some(Processing(Some("medium"), None, None, None, None)),
                   Some(Processing(Some("ultra"), None, None, None, None))},
     videos : SeqsUpTo(VideoItems, MaxVideos),
     local_videos : SeqsUpTo(LocalItems, MaxLocalVideos)]

\* process_from_config raises: VideoCLI.run prints the error and exits with 1.
BatchRaise(err) ==
    /\ b_error' = err
    /\ b_pc' = "exited"
    /\ b_exit' = Some(1)

\* self.processor.optimize_video(...) is entered with these arguments.
EnterOptimize(a) ==
    /\ e_pc' = "opt_exists"
    /\ e_args' = Some(a)
    /\ video_info' = None
    /\ output_path' = None
    /\ output_format' = None
    /\ new_dims' = None
    /\ original_bitrate_bps' = None
    /\ encode_spec' = None
    /\ e_error' = None
    /\ e_result' = None
    /\ kept_original' = FALSE
    /\ encoder_calls' = 0
    /\ encoder_error' = None

\* config = ConfigManager.load_config(config_path): the file is read, or the
\* call raises (no file, an unsupported suffix, unparsable text).
BatchLoad ==
    /\ b_pc = "idle"
    /\ \/ /\ \E cfg \in BatchConfigs : config' = Some(cfg)
          /\ b_pc' = "validate"
          /\ UNCHANGED <<b_error, b_exit>>
       \/ /\ BatchRaise(Some([type |-> "FileNotFoundError", msg |-> "Configuration file not found"]))
          /\ UNCHANGED config
    /\ UNCHANGED <<b_i, b_log, e_vars, p_vars, r_vars, l_vars>>

\* ConfigManager.validate_config(config); the processor and the downloader
\* are created; the 'videos' loop starts.
BatchValidate ==
    /\ b_pc = "validate"
    /\ IF validate_config(config[1])
       THEN /\ b_pc' = "videos"
            /\ b_i' = 1
            /\ UNCHANGED <<b_error, b_exit>>
       ELSE /\ BatchRaise(Some([type |-> "ValueError", msg |-> "Invalid configuration"]))
            /\ UNCHANGED b_i
    /\ UNCHANGED <<config, b_log, e_vars, p_vars, r_vars, l_vars>>

\* One pass of "for video_config in config.get('videos', [])" up to the call
\* of optimize_video: download_from_config raises ValueError without a url,
\* download_video writes the file or raises RuntimeError.
BatchDownload ==
    /\ b_pc = "videos"
    /\ b_i <= Len(config[1].videos)
    /\ LET video_config == config[1].videos[b_i]
       IN  IF video_config.url = None
           THEN /\ BatchRaise(Some([type |-> "ValueError", msg |-> "Video configuration must include 'url'"]))
                /\ UNCHANGED e_vars
           ELSE \/ /\ BatchRaise(Some([type |-> "RuntimeError", msg |-> "Error downloading video"]))
                   /\ UNCHANGED e_vars
                \/ LET downloaded_path == DownloadTarget(video_config.url[1],
                                                         ConfigFilename(video_config))
                   IN  /\ fs' = WriteFile(fs, downloaded_path, MkFile(SourceSize, "source"))
                       /\ EnterOptimize(VideoCallArgs(config[1], video_config, downloaded_path))
                       /\ b_pc' = "videos_optimize"
                       /\ UNCHANGED <<b_error, b_exit>>
    /\ UNCHANGED <<config, b_i, b_log, p_vars, r_vars, l_vars>>

\* optimize_video returned inside the 'videos' loop.
BatchVideoProcessed ==
    /\ b_pc = "videos_optimize"
    /\ e_pc = "returned"
    /\ b_log' = Append(b_log, [line |-> "Video processed successfully", item |-> b_i,
                            path |-> e_result])
    /\ b_i' = b_i + 1
    /\ b_pc' = "videos"
    /\ UNCHANGED <<config, b_error, b_exit, e_vars, p_vars, r_vars, l_vars>>

\* The 'videos' loop is exhausted; the 'local_videos' loop starts.
BatchVideosDone ==
    /\ b_pc = "videos"
    /\ b_i > Len(config[1].videos)
    /\ b_pc' = "local_videos"
    /\ b_i' = 1
    /\ UNCHANGED <<config, b_log, b_error, b_exit, e_vars, p_vars, r_vars, l_vars>>

\* One pass of "for video_config in config.get('local_videos', [])" up to the
\* call of optimize_video: a missing path prints a line and continues.
BatchLocal ==
    /\ b_pc = "local_videos"
    /\ b_i <= Len(config[1].local_videos)
    /\ LET video_config == config[1].local_videos[b_i]
       IN  IF video_config.local_path = None \/ ~Exists(fs, video_config.local_path[1])
           THEN /\ b_log' = Append(b_log, [line |-> "Local video not found", item |-> b_i,
                                         path |-> None])
                /\ b_i' = b_i + 1
                /\ UNCHANGED <<b_pc, e_vars>>
           ELSE /\ EnterOptimize(LocalCallArgs(config[1], video_config))
                /\ b_pc' = "local_optimize"
                /\ UNCHANGED <<b_i, b_log, fs>>
    /\ UNCHANGED <<config, b_error, b_exit, p_vars, r_vars, l_vars>>

\* optimize_video returned inside the 'local_videos' loop.
BatchLocalProcessed ==
    /\ b_pc = "local_optimize"
    /\ e_pc = "returned"
    /\ b_log' = Append(b_log, [line |-> "Local video processed successfully", item |-> b_i,
                            path |-> e_result])
    /\ b_i' = b_i + 1
    /\ b_pc' = "local_videos"
    /\ UNCHANGED <<config, b_error, b_exit, e_vars, p_vars, r_vars, l_vars>>

\* A loop that calls optimize_video again for the item whose call raised.
BatchOptimizeRetried ==
    /\ b_pc \in {"videos_optimize", "local_optimize"}
    /\ e_pc = "raised"
    /\ EnterOptimize(e_args[1])
    /\ UNCHANGED <<fs, b_vars, p_vars, r_vars, l_vars>>

\* optimize_video raised inside either loop: nothing catches it before
\* VideoCLI.run does.
BatchOptimizeRaised ==
    /\ b_pc \in {"videos_optimize", "local_optimize"}
    /\ e_pc = "raised"
    /\ BatchRaise(e_error)
    /\ UNCHANGED <<config, b_i, b_log, e_vars, p_vars, r_vars, l_vars>>

\* What process_from_config reports when it ends: it prints no totals and
\* has no return statement.
process_from_config_result == None

\* The 'local_videos' loop is exhausted: process_from_config returns and
\* VideoCLI.run ends normally.
BatchReturn ==
    /\ b_pc = "local_videos"
    /\ b_i > Len(config[1].local_videos)
    /\ b_pc' = "done"
    /\ b_exit' = Some(0)
    /\ UNCHANGED <<config, b_i, b_log, b_error, e_vars, p_vars, r_vars, l_vars>>

BatchNext ==
    \/ BatchLoad
    \/ BatchValidate
    \/ BatchDownload
    \/ BatchVideoProcessed
    \/ BatchVideosDone
    \/ BatchLocal
    \/ BatchLocalProcessed
    \/ BatchOptimizeRaised
    \/ BatchReturn
    \/ OptCheckInput
    \/ OptInspect
    \/ OptResolve
    \/ OptPlan
    \/ OptPrepare
    \/ OptWrite
    \/ OptGuard

SpecBatch == Init /\ [][BatchNext]_vars

-----------------------------------------------------------------------------
(* The planner on its own *)

PlannerInit ==
    /\ p_pc = "call"
    /\ p_args \in PlannerArgs \cup PlannerExamples
    /\ p_result = None
    /\ EngineIdle
    /\ BatchIdle
    /\ ResolverIdle
    /\ LegacyIdle

PlannerCall ==
    /\ p_pc = "call"
    /\ p_result' = Some(calculate_new_dimensions(p_args.w, p_args.h, p_args.max_width,
                                            p_args.max_height, p_args.scale_factor))
    /\ p_pc' = "done"
    /\ UNCHANGED <<p_args, e_vars, b_vars, r_vars, l_vars>>

PlannerNext == PlannerCall

SpecPlanner == PlannerInit /\ [][PlannerNext]_vars

-----------------------------------------------------------------------------
(* VideoCLI.resolve_video_input on its own *)

\* int(input_str): the integer an input string parses as, None when int()
\* raises ValueError.
ParseInt(input_str) ==
    CASE input_str = "0"    -> Some(0)
      [] input_str = "1"    -> Some(1)
      [] input_str = "2"    -> Some(2)
      [] input_str = "3"    -> Some(3)
      [] input_str = "-1"   -> Some(-1)
      [] input_str = "2024" -> Some(2024)
      [] OTHER              -> None

\* VideoFinder.get_video_by_index: videos[index] (0-based) or None.
get_video_by_index(videos, index) ==
    IF 0 <= index /\ index < Len(videos) THEN Some(videos[index + 1]) ELSE None

\* VideoFinder.get_video_by_name: the first video of the listing whose name
\* equals the given one, both lower-cased, or None.
get_video_by_name(videos, name) ==
    LET hits == {k \in 1..Len(videos) : Lower(videos[k].name) = Lower(name)}
    IN  IF hits = {} THEN None
        ELSE Some(videos[CHOOSE k \in hits : \A j \in hits : k <= j])

\* resolve_video_input: the ValueError raised for an index that is out of
\* range is caught by the except clause around int(), and the name and path
\* lookups follow.
resolve_video_input(input_str, videos, existing) ==
    LET index == ParseInt(input_str)
        by_index == IF index = None THEN None
                    ELSE get_video_by_index(videos, index[1] - 1)
        by_name == get_video_by_name(videos, input_str)
    IN  IF by_index # None THEN [ok |-> TRUE, path |-> by_index[1].path]
        ELSE IF by_name # None THEN [ok |-> TRUE, path |-> by_name[1].path]
        ELSE IF input_str \in existing THEN [ok |-> TRUE, path |-> input_str]
        ELSE [ok |-> FALSE, path |-> "Could not find video"]

\* A video of the folder listing.
FolderVideo(name, ext) ==
    [name |-> name, path |-> <<"local_videos", name, ext>>]

\* Folder listings as find_videos returns them, sorted by lower-cased name.
FolderListings ==
    {<<>>,
     <<FolderVideo("clip", "mp4")>>,
     <<FolderVideo("clip", "mp4"), FolderVideo("Intro", "webm")>>,
     <<FolderVideo("2024", "mp4"), FolderVideo("clip", "mp4")>>,
     <<FolderVideo("2", "mp4"), FolderVideo("clip", "mp4"), FolderVideo("CLIP", "MP4")>>}

InputStrings == {"0", "1", "2", "3", "-1", "2024", "clip", "CLIP", "Intro", "intro",
                 "missing", "videos/clip.mp4"}

\* The input strings that name an existing file when read as a path.
ExistingSets == {{}, {"videos/clip.mp4"}, {"3", "clip"}, {"2024", "videos/clip.mp4"}}

ResolverArgs == [input_str : InputStrings, videos : FolderListings, existing : ExistingSets]

ResolverInit ==
    /\ r_pc = "call"
    /\ r_args \in ResolverArgs
    /\ r_result = None
    /\ PlannerIdle
    /\ EngineIdle
    /\ BatchIdle
    /\ LegacyIdle

ResolverCall ==
    /\ r_pc = "call"
    /\ r_result' = Some(resolve_video_input(r_args.input_str, r_args.videos, r_args.existing))
    /\ r_pc' = "done"
    /\ UNCHANGED <<r_args, p_vars, e_vars, b_vars, l_vars>>

ResolverNext == ResolverCall

SpecResolver == ResolverInit /\ [][ResolverNext]_vars

-----------------------------------------------------------------------------
(* The legacy script: process_videos_from_json of video_processor.py *)

\* An entry of config['videos']: a key that is absent or empty is None.
LegacyEntry(name, url) == [name |-> name, url |-> url]

LegacyEntries ==
    { LegacyEntry(Some("a"), Some("http://host/a")),
      LegacyEntry(Some("b"), Some("http://host/b")),
      LegacyEntry(Some("c"), None) }

LegacyLists ==
    UNION { [1..n -> LegacyEntries] : n \in 0..MaxLegacyVideos }

\* f"{name}.mp4" and f"{name}_poster.webp", as file names inside a directory.
LegacyMp4(name) == [stem |-> <<name>>, ext |-> "mp4"]
LegacyPoster(name) == [stem |-> <<name, "_poster">>, ext |-> "webp"]

\* file.endswith(ext) over a directory listing.
EndsWith(files, ext) == { f \in files : f.ext = ext }

LegacyAtEntry == l_pc = "loop" /\ l_i <= Len(l_videos)

LegacyInit ==
    /\ l_pc = "setup"
    /\ l_videos \in LegacyLists
    /\ l_i = 1
    /\ l_downloads = {}
    /\ l_optimized = {}
    /\ l_frames = {}
    /\ l_dist \in {{}, {LegacyMp4("old")}}
    /\ l_zip = "not_run"
    /\ l_error = None
    /\ PlannerIdle
    /\ EngineIdle
    /\ BatchIdle
    /\ ResolverIdle

\* os.makedirs of the working directories; rmtree and makedirs of dist.
LegacySetup ==
    /\ l_pc = "setup"
    /\ l_dist' = {}
    /\ l_pc' = "loop"
    /\ UNCHANGED <<l_videos, l_i, l_downloads, l_optimized, l_frames, l_zip,
                   l_error, p_vars, e_vars, b_vars, r_vars>>

\* if not name or not url: continue
LegacySkip ==
    /\ LegacyAtEntry
    /\ (l_videos[l_i].name = None \/ l_videos[l_i].url = None)
    /\ l_i' = l_i + 1
    /\ UNCHANGED <<l_pc, l_videos, l_downloads, l_optimized, l_frames, l_dist,
                   l_zip, l_error, p_vars, e_vars, b_vars, r_vars>>

\* download_video(url, download_path): True with the file written; False
\* with no file (the request failed) or with the file opened and partly
\* written (the stream failed).  False continues with the next entry.
LegacyDownload ==
    /\ LegacyAtEntry
    /\ l_videos[l_i].name # None
    /\ l_videos[l_i].url # None
    /\ \E ok \in BOOLEAN, written \in BOOLEAN :
          /\ ok => written
          /\ l_downloads' = IF written
                            THEN l_downloads \cup {LegacyMp4(l_videos[l_i].name[1])}
                            ELSE l_downloads
          /\ IF ok
             THEN l_pc' = "optimize" /\ UNCHANGED l_i
             ELSE l_i' = l_i + 1 /\ UNCHANGED l_pc
    /\ UNCHANGED <<l_videos, l_optimized, l_frames, l_dist, l_zip, l_error,
                   p_vars, e_vars, b_vars, r_vars>>

\* optimize_video(download_path, optimized_path, ...): True with the file
\* written; False with no file (the clip could not be opened) or with the
\* file the encoder left.  False leaves the download where it is.
LegacyOptimize ==
    /\ l_pc = "optimize"
    /\ \E ok \in BOOLEAN, written \in BOOLEAN :
          /\ ok => written
          /\ l_optimized' = IF written
                            THEN l_optimized \cup {LegacyMp4(l_videos[l_i].name[1])}
                            ELSE l_optimized
          /\ IF ok
             THEN l_pc' = "frame" /\ UNCHANGED l_i
             ELSE l_pc' = "loop" /\ l_i' = l_i + 1
    /\ UNCHANGED <<l_videos, l_downloads, l_frames, l_dist, l_zip, l_error,
                   p_vars, e_vars, b_vars, r_vars>>

\* extract_first_frame(optimized_path, frame_path), whose result is ignored,
\* then os.remove(download_path).
LegacyFrame ==
    /\ l_pc = "frame"
    /\ \E written \in BOOLEAN :
          l_frames' = IF written
                      THEN l_frames \cup {LegacyPoster(l_videos[l_i].name[1])}
                      ELSE l_frames
    /\ l_downloads' = l_downloads \ {LegacyMp4(l_videos[l_i].name[1])}
    /\ l_pc' = "loop"
    /\ l_i' = l_i + 1
    /\ UNCHANGED <<l_videos, l_optimized, l_dist, l_zip, l_error,
                   p_vars, e_vars, b_vars, r_vars>>

\* After the loop: os.rename of every .mp4 of optimized/ and every .webp of
\* frames/ into dist/.
LegacyMove ==
    /\ l_pc = "loop"
    /\ l_i > Len(l_videos)
    /\ l_dist' = l_dist \cup EndsWith(l_optimized, "mp4") \cup EndsWith(l_frames, "webp")
    /\ l_optimized' = l_optimized \ EndsWith(l_optimized, "mp4")
    /\ l_frames' = l_frames \ EndsWith(l_frames, "webp")
    /\ l_pc' = "cleanup"
    /\ UNCHANGED <<l_videos, l_i, l_downloads, l_zip, l_error,
                   p_vars, e_vars, b_vars, r_vars>>

\* os.rmdir(downloads_dir); os.rmdir(optimized_dir); os.rmdir(frames_dir).
\* os.rmdir of a directory that is not empty raises OSError, which the outer
\* handler prints: the function ends there.
LegacyCleanup ==
    /\ l_pc = "cleanup"
    /\ IF l_downloads # {} \/ l_optimized # {} \/ l_frames # {}
       THEN /\ l_error' = Some("OSError")
            /\ l_pc' = "done"
       ELSE /\ l_pc' = "zip"
            /\ UNCHANGED l_error
    /\ UNCHANGED <<l_videos, l_i, l_downloads, l_optimized, l_frames, l_dist,
                   l_zip, p_vars, e_vars, b_vars, r_vars>>

\* subprocess.run(['zip', '-r', zip_path, dist_dir], check=True): the archive
\* is created, or zip exits non-zero (CalledProcessError, printed), or there
\* is no zip program (FileNotFoundError, printed by the outer handler).
LegacyZip ==
    /\ l_pc = "zip"
    /\ \/ l_zip' = "created" /\ UNCHANGED l_error
       \/ l_zip' = "failed" /\ UNCHANGED l_error
       \/ l_zip' = "no_program" /\ l_error' = Some("FileNotFoundError")
    /\ l_pc' = "done"
    /\ UNCHANGED <<l_videos, l_i, l_downloads, l_optimized, l_frames, l_dist,
                   p_vars, e_vars, b_vars, r_vars>>

LegacyNext ==
    \/ LegacySetup
    \/ LegacySkip
    \/ LegacyDownload
    \/ LegacyOptimize
    \/ LegacyFrame
    \/ LegacyMove
    \/ LegacyCleanup
    \/ LegacyZip

SpecLegacy == LegacyInit /\ [][LegacyNext]_vars

\* The script runs one statement after another and every step it waits for
\* (a request, an encode, zip) ends: a step that can be taken is taken.
SpecLegacyFair == LegacyInit /\ [][LegacyNext]_vars /\ WF_vars(LegacyNext)

-----------------------------------------------------------------------------
(* Properties of the engine, checked under Spec *)

IsOptimize == e_args # None /\ e_args[1].op = "optimize"
IsConvert == e_args # None /\ e_args[1].op = "convert"

\* The source file as it was before the call.
SourceBefore == InitialFiles[e_args[1].input_path]

\* The file at the path the call returned.
Delivered == fs[e_result[1]]

\* An optimize_video call returned, its output format is the source's and
\* lossless was not requested.
SameContainerReturn ==
    /\ IsOptimize
    /\ e_pc = "returned"
    /\ output_format[1] = video_info[1].format
    /\ ~e_args[1].lossless

\* C1 as stated: every optimize_video run that returns with the source's own
\* format and without lossless (neither the flag nor the preset) delivers a
\* file no larger than the source.
C1_NeverLargerAnyCall ==
    (SameContainerReturn /\ e_args[1].compression_level # "lossless") =>
        Delivered.size <= SourceBefore.size

\* C1, amended: with ensure_smaller true, such a run delivers a file no larger
\* than the source: the encoder's file only when it is strictly smaller, and
\* otherwise a copy of the original.
C1_NeverLargerWhenEnsured ==
    (SameContainerReturn /\ e_args[1].ensure_smaller) =>
        /\ Delivered.size <= SourceBefore.size
        /\ Delivered.content = "encoded" => Delivered.size < SourceBefore.size
        /\ Delivered.content # "encoded" => (Delivered = SourceBefore /\ kept_original)

C1_Witness ==
    /\ SameContainerReturn
    /\ e_args[1].ensure_smaller
    /\ kept_original
    /\ Delivered = SourceBefore

\* C2: when the output format differs from the source's, or lossless was
\* requested, a returning optimize_video delivers the encoder's file and
\* never the original, whatever its size.
C2_GuardSkipped ==
    (/\ IsOptimize
     /\ e_pc = "returned"
     /\ (output_format[1] # video_info[1].format \/ e_args[1].lossless)) =>
        /\ Delivered.content = "encoded"
        /\ ~kept_original

C2_Witness ==
    /\ IsOptimize
    /\ e_pc = "returned"
    /\ output_format[1] # video_info[1].format
    /\ e_args[1].ensure_smaller
    /\ ~e_args[1].lossless
    /\ Delivered.content = "encoded"
    /\ Delivered.size > SourceBefore.size

UnsupportedFormatError ==
    /\ e_error # None
    /\ e_error[1].type = "ValueError"
    /\ e_error[1].msg \in {"Unsupported output format", "Unsupported target format"}

\* C3: once the target format is resolved and is not one of SUPPORTED_FORMATS,
\* the call (optimize_video or convert_format) has raised the unsupported
\* format error, the encoder was never invoked and no file was written.
C3_UnsupportedFailsEarly ==
    (output_format # None /\ output_format[1] \notin DOMAIN SUPPORTED_FORMATS) =>
        /\ e_pc = "raised"
        /\ UnsupportedFormatError
        /\ encoder_calls = 0
        /\ encode_spec = None
        /\ fs = InitialFiles

C3_Witness ==
    /\ IsOptimize
    /\ output_format = Some("xyz")
    /\ e_pc = "raised"
    /\ UnsupportedFormatError

\* A resize directive the spec calls invalid: a scale factor <= 0, or a
\* max_width or max_height <= 0.
InvalidResize(a) ==
    \/ a.scale_factor # None /\ a.scale_factor[1] <= 0
    \/ a.max_width # None /\ a.max_width[1] <= 0
    \/ a.max_height # None /\ a.max_height[1] <= 0

\* C8 as stated: an invalid resize directive is rejected before planning: no
\* target dimensions are computed and no encode is started.
C8_InvalidResizeRejected ==
    (IsOptimize /\ InvalidResize(e_args[1])) =>
        /\ new_dims = None
        /\ encode_spec = None
        /\ encoder_calls = 0

\* C9: a bitrate ceiling handed to the encoder by a non-lossless
\* optimize_video is strictly below the probed source bitrate, for every
\* preset tag.
C9_CeilingBelowSource ==
    (/\ IsOptimize
     /\ encode_spec # None
     /\ ~e_args[1].lossless
     /\ encode_spec[1].maxrate_kbps # None) =>
        /\ original_bitrate_bps # None
        /\ encode_spec[1].maxrate_kbps[1] * 1000 < original_bitrate_bps[1]

C9_Witness ==
    /\ IsOptimize
    /\ encode_spec # None
    /\ ~e_args[1].lossless
    /\ e_args[1].compression_level = "ultra"
    /\ original_bitrate_bps = Some(2000000)
    /\ encode_spec[1].maxrate_kbps = Some(1100)

\* C10: with the lossless flag, optimize_video encodes with crf 0 and preset
\* veryslow whatever the compression_level, and passes no bitrate ceiling,
\* no buffer size and no audio bitrate.
C10_LosslessSpec ==
    (IsOptimize /\ e_args[1].lossless /\ encode_spec # None) =>
        /\ encode_spec[1].crf = 0
        /\ encode_spec[1].preset = "veryslow"
        /\ encode_spec[1].maxrate_kbps = None
        /\ encode_spec[1].bufsize_kbps = None
        /\ encode_spec[1].audio_bitrate_kbps = None

C10_Witness ==
    /\ IsOptimize
    /\ e_args[1].lossless
    /\ e_args[1].compression_level = "low"
    /\ encode_spec # None
    /\ encode_spec[1].codec = "libx264"
    /\ encode_spec[1].audio
    /\ original_bitrate_bps # None
    /\ encoder_calls = 1

-----------------------------------------------------------------------------
(* Properties of the batch driver, checked under SpecBatch *)

\* The run ended because the configuration could not be loaded or validated.
ConfigError ==
    /\ b_error # None
    /\ b_error[1].msg \in {"Configuration file not found", "Invalid configuration"}

\* C4 as stated: no failure of a single item ends the batch: the run never
\* exits on an item's exception, so every later item is reached.
C4_ItemFailureIsolated ==
    b_pc = "exited" => ConfigError

LogLines(line) == {k \in 1..Len(b_log) : b_log[k].line = line}

\* The scenario of C5: no remote items, three local items of which exactly
\* one has a path that does not exist, and both others were optimized.
C5_Scenario ==
    /\ b_pc = "done"
    /\ config[1].videos = <<>>
    /\ Len(config[1].local_videos) = 3
    /\ Cardinality({k \in 1..3 : config[1].local_videos[k].local_path = Some(MissingPath)}) = 1
    /\ Cardinality(LogLines("Local video processed successfully")) = 2

\* C5 as stated: that run ends with a final count of 2 successes and 1
\* failure.
C5_FinalCount ==
    C5_Scenario =>
        process_from_config_result = Some([succeeded |-> 2, failed |-> 1])

-----------------------------------------------------------------------------
(* Properties of the planner, checked under SpecPlanner *)

IsEven(n) == n % 2 = 0

\* A resize directive the spec calls valid: any scale factor and any bound
\* that is given is positive.
ValidDirective ==
    /\ p_args.scale_factor # None => p_args.scale_factor[1] > 0
    /\ p_args.max_width # None => p_args.max_width[1] > 0
    /\ p_args.max_height # None => p_args.max_height[1] > 0

\* C6 as stated: for a source of positive dimensions and a valid directive
\* the planned dimensions are even and at least 2 on each axis.
C6_EvenAndAtLeastTwo ==
    (p_pc = "done" /\ ValidDirective) =>
        /\ IsEven(p_result[1][1]) /\ p_result[1][1] >= 2
        /\ IsEven(p_result[1][2]) /\ p_result[1][2] >= 2

\* A planner call with both bounds given and positive, and no scale factor.
BothBoundsPositive ==
    /\ p_pc = "done"
    /\ ~TruthyFrac(p_args.scale_factor)
    /\ p_args.max_width # None /\ p_args.max_width[1] > 0
    /\ p_args.max_height # None /\ p_args.max_height[1] > 0

\* The exact common ratio min(maxW/W, maxH/H), as a fraction.
ExactRatio ==
    IF p_args.max_height[1] * p_args.w < p_args.max_width[1] * p_args.h
    THEN <<p_args.max_height[1], p_args.h>>
    ELSE <<p_args.max_width[1], p_args.w>>

\* How far below original * ratio the planned value lies, times the ratio's
\* denominator.
Shortfall(original, planned) == original * ExactRatio[1] - planned * ExactRatio[2]

WithinBounds ==
    /\ IsEven(p_result[1][1]) /\ p_result[1][1] <= p_args.max_width[1]
    /\ IsEven(p_result[1][2]) /\ p_result[1][2] <= p_args.max_height[1]

\* C7 as stated: with both bounds positive the planned axes are even, within
\* their bounds, and within 1 pixel of the exact ratio applied to the axis.
C7_WithinOnePixel ==
    BothBoundsPositive =>
        /\ WithinBounds
        /\ Abs(Shortfall(p_args.w, p_result[1][1])) <= ExactRatio[2]
        /\ Abs(Shortfall(p_args.h, p_result[1][2])) <= ExactRatio[2]

\* C7, amended: the planned axes are even, within their bounds, never above
\* and at most 2 pixels below the exact ratio applied to the axis.
C7_WithinTwoPixelsBelow ==
    BothBoundsPositive =>
        /\ WithinBounds
        /\ Shortfall(p_args.w, p_result[1][1]) >= 0
        /\ Shortfall(p_args.w, p_result[1][1]) <= 2 * ExactRatio[2]
        /\ Shortfall(p_args.h, p_result[1][2]) >= 0
        /\ Shortfall(p_args.h, p_result[1][2]) <= 2 * ExactRatio[2]

\* A planned height more than 1 pixel below the exact one.
C7_Witness ==
    /\ BothBoundsPositive
    /\ Shortfall(p_args.h, p_result[1][2]) > ExactRatio[2]

-----------------------------------------------------------------------------
(* The rate controller, checked under Spec *)

\* The ratio the specification gives for each of the four capped presets.
RatioOfPreset(level) ==
    CASE level = "high"     -> <<7, 10>>
      [] level = "medium"   -> <<11, 20>>
      [] level = "low"      -> <<2, 5>>
      [] level = "very_low" -> <<1, 4>>

\* A non-lossless optimize_video on libx264 with a known source bitrate and
\* one of the four capped presets has assembled its parameters.
CappedRequest ==
    /\ IsOptimize
    /\ encode_spec # None
    /\ ~e_args[1].lossless
    /\ encode_spec[1].codec = "libx264"
    /\ Truthy(original_bitrate_bps)
    /\ e_args[1].compression_level \in {"high", "medium", "low", "very_low"}

\* The buffer is max(2 * ceiling, 1000 kbps).
BufferIsDoubleOrFloor ==
    /\ encode_spec[1].bufsize_kbps # None
    /\ encode_spec[1].bufsize_kbps[1] >= 2 * encode_spec[1].maxrate_kbps[1]
    /\ encode_spec[1].bufsize_kbps[1] >= 1000
    /\ encode_spec[1].bufsize_kbps[1] \in {2 * encode_spec[1].maxrate_kbps[1], 1000}

\* How far the ceiling (kbps * 1000) lies below bitrate * ratio, in bps times
\* the ratio's denominator.
CeilingShortfall ==
    LET r == RatioOfPreset(e_args[1].compression_level)
    IN  original_bitrate_bps[1] * r[1] - encode_spec[1].maxrate_kbps[1] * 1000 * r[2]

\* C11 as stated: for a capped request the ceiling equals the source bitrate
\* times the preset's ratio (0.70, 0.55, 0.40, 0.25) and the buffer is
\* max(2 * ceiling, floor).
C11_CeilingIsExactProduct ==
    CappedRequest =>
        /\ encode_spec[1].maxrate_kbps # None
        /\ CeilingShortfall = 0
        /\ BufferIsDoubleOrFloor

\* C11, amended: the ceiling is a whole number of kbps, never above the source
\* bitrate times the preset's ratio and at most 1000 bps below it; the buffer
\* is max(2 * ceiling, 1000 kbps); preset high on 2,000,000 bps gives
\* 1400 kbps and 2800 kbps.
C11_CeilingTruncatedToKbps ==
    CappedRequest =>
        /\ encode_spec[1].maxrate_kbps # None
        /\ CeilingShortfall >= 0
        /\ CeilingShortfall <= 1000 * RatioOfPreset(e_args[1].compression_level)[2]
        /\ BufferIsDoubleOrFloor
        /\ (e_args[1].compression_level = "high" /\ original_bitrate_bps = Some(2000000)) =>
               /\ encode_spec[1].maxrate_kbps = Some(1400)
               /\ encode_spec[1].bufsize_kbps = Some(2800)

\* The example of the specification, and a request whose buffer is the floor.
C11_Witness ==
    /\ CappedRequest
    /\ e_args[1].compression_level = "high"
    /\ original_bitrate_bps = Some(2000000)
    /\ encode_spec[1].maxrate_kbps = Some(1400)
    /\ encode_spec[1].bufsize_kbps = Some(2800)

\* The preset tag of the call (compression_level or quality) is not an entry
\* of COMPRESSION_PRESETS, and the parameters have been assembled.
UnknownTagOptimize ==
    /\ IsOptimize
    /\ ~e_args[1].lossless
    /\ e_args[1].compression_level \notin DOMAIN COMPRESSION_PRESETS
    /\ encode_spec # None

UnknownTagConvert ==
    /\ IsConvert
    /\ e_args[1].quality \notin DOMAIN COMPRESSION_PRESETS
    /\ encode_spec # None

\* C12: with the lossless flag false and a preset tag that is not in the
\* table, the parameters are those of the medium tier: crf 23, preset medium,
\* and a ceiling (when there is one) of 0.55 times the source bitrate in whole
\* kbps; the whole encode specification is the one the tag medium gives.
C12_UnknownTagIsMedium ==
    /\ UnknownTagOptimize =>
          /\ encode_spec[1].crf = 23
          /\ encode_spec[1].preset = "medium"
          /\ encode_spec[1].maxrate_kbps # None =>
                /\ 20000 * encode_spec[1].maxrate_kbps[1] <= 11 * original_bitrate_bps[1]
                /\ 11 * original_bitrate_bps[1] <= 20000 * (encode_spec[1].maxrate_kbps[1] + 1)
          /\ encode_spec[1] =
                OptimizeEncodeSpec([e_args[1] EXCEPT !.compression_level = "medium"],
                                   output_format[1], new_dims[1], original_bitrate_bps,
                                   encode_spec[1].audio)
    /\ UnknownTagConvert =>
          /\ encode_spec[1].crf = 23
          /\ encode_spec[1].preset = "medium"

\* A call with an unlisted tag that was not an error: it returned, with the
\* medium ceiling of a 2,000,000 bps source.
C12_Witness ==
    /\ UnknownTagOptimize
    /\ e_pc = "returned"
    /\ e_error = None
    /\ encode_spec[1].maxrate_kbps = Some(1100)

-----------------------------------------------------------------------------
(* Settings of a batch item, checked under SpecBatch *)

\* optimize_video is running for item b_i of one of the two loops.
InItemCall == b_pc \in {"videos_optimize", "local_optimize"}

CurrentItem ==
    IF b_pc = "videos_optimize" THEN config[1].videos[b_i]
    ELSE config[1].local_videos[b_i]

\* The value a setting has for the current item when the item's own record
\* takes precedence over the batch-level record (None: given by neither).
ItemSetting(key) ==
    IF CurrentItem.processing[key] # None THEN CurrentItem.processing[key]
    ELSE config[1].processing[1][key]

\* C13 as stated: in the call made for an item, remote or local, each setting
\* is the item's own when the item gives it and the batch-level one otherwise.
C13_ItemSettingsTakePrecedence ==
    InItemCall =>
        /\ e_args[1].compression_level = GetOr(ItemSetting("compression_level"), "medium")
        /\ e_args[1].max_width = ItemSetting("max_width")
        /\ e_args[1].max_height = ItemSetting("max_height")
        /\ e_args[1].lossless = GetOr(ItemSetting("lossless"), FALSE)

\* The configuration passed validate_config and the loops have started.
Validated ==
    /\ config # None
    /\ b_pc \notin {"idle", "validate"}
    /\ ~ConfigError

\* Every preset tag of a configuration: the batch-level one and those of the
\* items' processing records.
ConfigTags(cfg) ==
    {cfg.processing[1].compression_level}
        \cup {cfg.videos[k].processing.compression_level : k \in 1..Len(cfg.videos)}
        \cup {cfg.local_videos[k].processing.compression_level : k \in 1..Len(cfg.local_videos)}

\* C14 as stated: a configuration that passed validation uses recognized
\* preset tags only, at batch level and in every item's override, and no
\* unrecognized tag reaches optimize_video.
C14_UnknownTagsRejected ==
    Validated =>
        /\ \A t \in ConfigTags(config[1]) : t # None => t[1] \in VALID_COMPRESSION_LEVELS
        /\ InItemCall => e_args[1].compression_level \in VALID_COMPRESSION_LEVELS

-----------------------------------------------------------------------------
(* The output container of optimize_video, checked under Spec *)

\* optimize_video has resolved its output format.
FormatResolved == IsOptimize /\ output_format # None

\* The resolved format is the one used: the codecs handed to the encoder are
\* those of that format, and the original is only kept when that format is
\* the source's.
ResolvedFormatIsUsed ==
    /\ encode_spec # None =>
          /\ encode_spec[1].codec = SUPPORTED_FORMATS[output_format[1]].video_codec
          /\ encode_spec[1].audio_codec = SUPPORTED_FORMATS[output_format[1]].audio_codec
    /\ kept_original => output_format[1] = video_info[1].format

-----------------------------------------------------------------------------
(* Encoder invocations, checked under SpecBatch *)

\* A step that enters optimize_video or convert_format.
CallEntered ==
    /\ e_pc \notin {"opt_exists", "conv_exists"}
    /\ e_pc' \in {"opt_exists", "conv_exists"}

\* encoder_calls counts the invocations of write_videofile within the
\* current call.  A call is entered from the head of a loop only (or, outside
\* a batch, as the one call of the run); a loop comes back to its head after a
\* call only by moving to the next item; a call that raised is never followed
\* by a step of the engine.
OneAttemptStep ==
    /\ CallEntered => (e_pc = "idle" \/ b_pc \in {"videos", "local_videos"})
    /\ (InItemCall /\ b_pc' \in {"videos", "local_videos"}) =>
           (e_pc = "returned" /\ b_i' = b_i + 1)
    /\ e_pc = "raised" => (encoder_calls' = encoder_calls /\ fs' = fs)
    /\ encoder_calls' > encoder_calls =>
           (encoder_calls' = 1 /\ e_pc \in {"opt_write", "conv_write"})

\* C16: within the call made for an item the encoder is invoked at most once,
\* and no item gets a second call: a failure ends the call, and the loop never
\* calls the engine again for the same item.
C16_AtMostOneEncode ==
    [](encoder_calls <= 1) /\ [][OneAttemptStep]_vars

\* The second local item's call failed in the encoder after the first item's
\* call had returned.
C16_Witness ==
    /\ b_pc = "local_optimize"
    /\ b_i = 2
    /\ e_pc = "raised"
    /\ encoder_calls = 1

-----------------------------------------------------------------------------
(* Encoder failures, checked under Spec *)

\* C17: when write_videofile raised, in optimize_video or in convert_format,
\* the call has raised RuntimeError carrying the text of the encoder's
\* exception, and it returned no output path.
C17_EncoderFailureIsFatal ==
    encoder_error # None =>
        /\ e_pc = "raised"
        /\ e_result = None
        /\ e_error # None
        /\ e_error[1].type = "RuntimeError"
        /\ e_error[1].detail = encoder_error

\* convert_format failed in the encoder, which left a partial file behind.
C17_Witness ==
    /\ IsConvert
    /\ encoder_error = Some("ffmpeg: broken pipe")
    /\ e_error # None
    /\ e_error[1].msg = "Error converting video"
    /\ Exists(fs, output_path[1])
    /\ fs[output_path[1]].content = "partial"

-----------------------------------------------------------------------------
(* The planner on a 1280x720 source, checked under SpecPlanner *)

\* calculate_new_dimensions(1280, 720, 721, 481) has returned.
PlannedExample == p_pc = "done" /\ p_args \in PlannerExamples

\* C18 as stated: max-bounds (721, 481) on 1280x720 gives 720x406.
C18_Gives720x406 ==
    PlannedExample => p_result = Some(<<720, 406>>)

\* C18, amended: max-bounds (721, 481) on 1280x720 gives 720x404: the ratio
\* is 721/1280, the height 405.56 is truncated to 405 and decremented to 404.
C18_Gives720x404 ==
    PlannedExample => p_result = Some(<<720, 404>>)

C18_Witness ==
    /\ PlannedExample
    /\ p_result[1][1] = 720
    /\ p_result[1][2] < 406

-----------------------------------------------------------------------------
(* The guard step, checked under Spec *)

\* C19 as stated: once the encoder has succeeded, optimize_video does not
\* raise: a call that invoked the encoder and raised did so because the
\* encoder failed.
C19_GuardNeverRaises ==
    (IsOptimize /\ encoder_calls = 1 /\ e_pc = "raised") => encoder_error # None

-----------------------------------------------------------------------------
(* Output paths of a batch, checked under SpecBatch *)

\* The positions of b_log that report a processed local item.
ProcessedLocal == LogLines("Local video processed successfully")

\* C20 as stated: two distinct local items of one run that were both
\* processed were delivered at different output paths.
C20_OwnOutputPath ==
    \A j \in ProcessedLocal : \A k \in ProcessedLocal :
        (j < k /\ config[1].local_videos[b_log[j].item].local_path
                     # config[1].local_videos[b_log[k].item].local_path) =>
            b_log[j].path # b_log[k].path

-----------------------------------------------------------------------------
(* The guard decision, checked under Spec *)

\* optimize_video has encoded and is about to read the two sizes.
AtGuard == IsOptimize /\ e_pc = "opt_guard"

\* The decision of a run that has the source size, encoded size, source
\* format, output format and lossless flag of this run, and ensure_smaller es.
DecisionOfRun(es) ==
    GuardFires(es, output_format[1], video_info[1].format,
               fs[output_path[1]].size, fs[e_args[1].input_path].size,
               e_args[1].lossless)

DecisionFunction ==
    /\ e_args[1].ensure_smaller
    /\ output_format[1] = video_info[1].format
    /\ fs[output_path[1]].size >= fs[e_args[1].input_path].size
    /\ ~e_args[1].lossless

\* The guard step: it returns with the decision DecisionFunction gives and a
\* file of the source's size when it fired, of the encoded size when not; it
\* raises only when it fired.
GuardStepDetermined ==
    AtGuard =>
        /\ e_pc' = "returned" =>
              /\ kept_original' = DecisionFunction
              /\ fs'[output_path[1]].size =
                    IF DecisionFunction THEN fs[e_args[1].input_path].size
                    ELSE fs[output_path[1]].size
        /\ e_pc' = "raised" => DecisionFunction

-----------------------------------------------------------------------------
(* The phases of optimize_video, checked under Spec *)

\* The phase a position of optimize_video belongs to: 1 Inspecting,
\* 2 Planning, 3 Encoding, 4 Guarding, 5 Done; 0 is Failed.
PhaseOf(pc) ==
    CASE pc \in {"opt_exists", "opt_inspect"}               -> 1
      [] pc \in {"opt_resolve", "opt_plan", "opt_prepare"}  -> 2
      [] pc = "opt_write"                                   -> 3
      [] pc = "opt_guard"                                   -> 4
      [] pc = "returned"                                    -> 5
      [] OTHER                                              -> 0

\* What each phase has, and has not yet, done.
PhaseState ==
    IsOptimize =>
        /\ PhaseOf(e_pc) = 1 =>
              (video_info = None /\ output_format = None /\ new_dims = None)
        /\ PhaseOf(e_pc) \in {1, 2} => (encoder_calls = 0 /\ fs = InitialFiles)
        /\ PhaseOf(e_pc) >= 2 => video_info # None
        /\ PhaseOf(e_pc) = 3 =>
              (new_dims # None /\ encode_spec # None /\ encoder_calls = 0)
        /\ PhaseOf(e_pc) \in {1, 2, 3} => (~kept_original /\ e_result = None)
        /\ PhaseOf(e_pc) >= 4 => (encoder_calls = 1 /\ encoder_error = None)
        /\ e_pc = "raised" => (e_error # None /\ e_result = None /\ ~kept_original)

\* A step of optimize_video stays in its phase, moves to the next one or
\* fails; a failure leaves what the later phases would do undone; nothing
\* follows a failure.
PhaseStep ==
    (IsOptimize /\ e_pc # "idle") =>
        /\ e_pc # "raised"
        /\ e_pc' # "raised" => PhaseOf(e_pc') \in {PhaseOf(e_pc), PhaseOf(e_pc) + 1}
        /\ (e_pc' = "raised" /\ PhaseOf(e_pc) = 1) =>
              (video_info' = None \/ output_format' = None) /\ new_dims' = None
                  /\ encoder_calls' = 0
        /\ (e_pc' = "raised" /\ PhaseOf(e_pc) = 2) =>
              (encoder_calls' = 0 /\ fs' = fs)
        /\ (e_pc' = "raised" /\ PhaseOf(e_pc) = 3) => encoder_error' # None

\* C22: optimize_video goes through Inspecting, Planning, Encoding, Guarding
\* and Done in that order; a missing input or failed inspection fails before
\* planning, a planning failure before any encoder invocation, an encoder
\* failure before the guard; no phase follows a failed one.
C22_PhasesInOrder == [](PhaseState) /\ [][PhaseStep]_vars

\* The run failed while planning, after a successful inspection and before
\* the encoder was invoked.
C22_Witness ==
    /\ IsOptimize
    /\ e_pc = "raised"
    /\ video_info # None
    /\ new_dims # None
    /\ encoder_calls = 0
    /\ e_error[1].detail = Some("the clip could not be opened")

-----------------------------------------------------------------------------
(* When the ceiling is passed, checked under Spec *)

\* C23: optimize_video hands a ceiling and a buffer size to the encoder
\* exactly when the request is not lossless, the video codec of the output
\* format is libx264 and the source bitrate is known; otherwise it hands
\* neither, and the crf and preset alone control the encode.
C23_CeilingIffCapped ==
    (IsOptimize /\ encode_spec # None) =>
        /\ (encode_spec[1].maxrate_kbps # None) <=>
              (/\ ~e_args[1].lossless
               /\ SUPPORTED_FORMATS[output_format[1]].video_codec = "libx264"
               /\ original_bitrate_bps # None)
        /\ (encode_spec[1].bufsize_kbps # None) <=> (encode_spec[1].maxrate_kbps # None)
        /\ encode_spec[1].crf \in 0..51

\* A non-lossless webm encode of a source whose bitrate is known: no ceiling.
C23_Witness ==
    /\ IsOptimize
    /\ e_pc = "returned"
    /\ ~e_args[1].lossless
    /\ encode_spec[1].codec = "libvpx-vp9"
    /\ original_bitrate_bps # None
    /\ encode_spec[1].maxrate_kbps = None
    /\ encode_spec[1].bufsize_kbps = None

-----------------------------------------------------------------------------
(* The planner against exact arithmetic, checked under SpecPlanner *)

\* floor(original * num / den) for positive operands.
ExactFloor(original, ratio) == (original * ratio[1]) \div ratio[2]

\* The reference planner: floor of the exact product on both axes, then each
\* odd axis is decremented by 1.
ReferencePlan ==
    LET raw ==
            IF p_args.scale_factor # None
            THEN <<ExactFloor(p_args.w, p_args.scale_factor),
                   ExactFloor(p_args.h, p_args.scale_factor)>>
            ELSE IF p_args.max_width # None /\ p_args.max_height # None
            THEN <<ExactFloor(p_args.w, ExactRatio), ExactFloor(p_args.h, ExactRatio)>>
            ELSE IF p_args.max_width # None
            THEN <<ExactFloor(p_args.w, <<p_args.max_width[1], p_args.w>>),
                   ExactFloor(p_args.h, <<p_args.max_width[1], p_args.w>>)>>
            ELSE IF p_args.max_height # None
            THEN <<ExactFloor(p_args.w, <<p_args.max_height[1], p_args.h>>),
                   ExactFloor(p_args.h, <<p_args.max_height[1], p_args.h>>)>>
            ELSE <<p_args.w, p_args.h>>
    IN  <<IF IsEven(raw[1]) THEN raw[1] ELSE raw[1] - 1,
          IF IsEven(raw[2]) THEN raw[2] ELSE raw[2] - 1>>

\* C24 as stated: for every valid directive calculate_new_dimensions returns
\* what the reference planner returns.
C24_EqualsReference ==
    (p_pc = "done" /\ ValidDirective) => p_result = Some(ReferencePlan)

-----------------------------------------------------------------------------
(* Input resolution, checked under SpecResolver *)

Resolved == r_pc = "done"

\* The input parses as an integer that is not an index of the listing.
OutOfRangeIndex ==
    /\ ParseInt(r_args.input_str) # None
    /\ ~(1 <= ParseInt(r_args.input_str)[1]
            /\ ParseInt(r_args.input_str)[1] <= Len(r_args.videos))

\* The videos of the listing whose name is the input, case-insensitively.
NameMatches ==
    {k \in 1..Len(r_args.videos) : Lower(r_args.videos[k].name) = Lower(r_args.input_str)}

\* C25 as stated: index first, then name, then path, the first match being
\* returned; an input that parses as an integer is resolved as an index only,
\* an out-of-range index being an error; an input matching nothing is an
\* error.
C25_IndexThenNameThenPath ==
    Resolved =>
        /\ OutOfRangeIndex => ~r_result[1].ok
        /\ (ParseInt(r_args.input_str) # None /\ ~OutOfRangeIndex) =>
              (/\ r_result[1].ok
               /\ r_result[1].path = r_args.videos[ParseInt(r_args.input_str)[1]].path)
        /\ (ParseInt(r_args.input_str) = None /\ NameMatches # {}) =>
              (/\ r_result[1].ok
               /\ \E k \in NameMatches : r_result[1].path = r_args.videos[k].path)
        /\ (ParseInt(r_args.input_str) = None /\ NameMatches = {}
               /\ r_args.input_str \in r_args.existing) =>
              (r_result[1].ok /\ r_result[1].path = r_args.input_str)
        /\ (ParseInt(r_args.input_str) = None /\ NameMatches = {}
               /\ r_args.input_str \notin r_args.existing) => ~r_result[1].ok

-----------------------------------------------------------------------------
(* The lossless tier without the flag, checked under Spec *)

\* The call selected the tier 'lossless' by its tag and has assembled its
\* parameters.
LosslessTierSelected ==
    /\ encode_spec # None
    /\ \/ IsOptimize /\ e_args[1].compression_level = "lossless"
       \/ IsConvert /\ e_args[1].quality = "lossless"

\* C26 as stated: a request whose tier is 'lossless', with or without the
\* flag, carries no bitrate ceiling, no buffer size and no audio bitrate.
C26_LosslessTierIsLossless ==
    LosslessTierSelected =>
        /\ encode_spec[1].maxrate_kbps = None
        /\ encode_spec[1].bufsize_kbps = None
        /\ encode_spec[1].audio_bitrate_kbps = None

-----------------------------------------------------------------------------
(* The source file, checked under Spec *)

\* C27 as stated: at every point of a call of optimize_video or
\* convert_format, and after it, the input file is there with the size and
\* content it had before the call.
C27_SourceUntouched ==
    (e_args # None /\ Exists(InitialFiles, e_args[1].input_path)) =>
        /\ Exists(fs, e_args[1].input_path)
        /\ fs[e_args[1].input_path] = InitialFiles[e_args[1].input_path]

-----------------------------------------------------------------------------
(* The extension of the output path, checked under Spec *)

\* C28 as stated: when optimize_video returns, the extension of the returned
\* path (lower-cased) is the output format that was validated, used for the
\* codecs and compared by the guard.
C28_ExtensionIsFormat ==
    (IsOptimize /\ e_pc = "returned") =>
        LStripDot(Lower(e_result[1].ext)) = output_format[1]

-----------------------------------------------------------------------------
(* convert_format has no ceiling and no guard, checked under Spec *)

\* C29: convert_format hands no ceiling and no buffer size to the encoder,
\* and what it delivers when it returns is the encoder's output, never a copy
\* of the original, whatever the target format and the sizes.
C29_ConvertUncappedUnguarded ==
    /\ (IsConvert /\ encode_spec # None) =>
          (encode_spec[1].maxrate_kbps = None /\ encode_spec[1].bufsize_kbps = None)
    /\ (IsConvert /\ e_pc = "returned") =>
          (/\ Delivered.content = "encoded"
           /\ ~kept_original
           /\ original_bitrate_bps = None)

\* An mp4 source converted to mp4: the delivered encode is larger than the
\* source.
C29_Witness ==
    /\ IsConvert
    /\ e_pc = "returned"
    /\ e_args[1].input_path = SourcePath("mp4")
    /\ output_format = Some("mp4")
    /\ e_result # Some(e_args[1].input_path)
    /\ Delivered.content = "encoded"
    /\ Delivered.size > SourceBefore.size

-----------------------------------------------------------------------------
(* The legacy run to its end, checked under SpecLegacyFair *)

\* The zip step was reached: subprocess.run was called.
ArchiveReached == l_zip # "not_run"

\* C30 as stated: whatever the entries and whichever per-video steps fail,
\* every entry is gone through and the run then eventually reaches archive
\* creation.
C30_EventuallyArchive ==
    /\ <>(l_i > Len(l_videos))
    /\ <>ArchiveReached

=============================================================================
